---- MODULE Spec2Model ----
(***************************************************************************)
(* Model of scripts/ingest_docx.py: the OOXMLStyleParser pipeline that     *)
(* reads a DOCX package, extracts its style and numbering catalogs, walks  *)
(* the document and classifies every paragraph/table style into the fixed  *)
(* semantic HTML vocabulary (the style manifest).                          *)
(*                                                                         *)
(* Python values are modelled as follows.  A str is a TLA+ string; None is *)
(* the reserved string None below, which no XML attribute value of the     *)
(* input pools equals.  A dict is a sequence of [k, v] records in          *)
(* insertion order (Python dicts keep insertion order; assigning to an     *)
(* existing key keeps its position).  An XPath result list is a sequence.  *)
(***************************************************************************)
EXTENDS Integers, Sequences, FiniteSets, TLC

VARIABLES
    docx,                \* the file at docx_path: the package and its parts
    pc,                  \* position of main / process_full_pipeline
    styles_data,         \* self.styles_data
    numbering_data,      \* self.numbering_data
    document_structure,  \* self.document_structure
    style_manifest,      \* self.style_manifest
    output_dir,          \* the output_dir argument (None until it is read)
    outputs,             \* the files save_outputs has written
    result,              \* the value process_full_pipeline returns
    exit_code            \* the status main exits with (None while running)

vars == <<docx, pc, styles_data, numbering_data, document_structure,
          style_manifest, output_dir, outputs, result, exit_code>>

None == "<None>"

-----------------------------------------------------------------------------
(* Bounds of the input pools.                                              *)

MaxStyles == 2

-----------------------------------------------------------------------------
(* Python dict, in insertion order.                                        *)

EmptyDict == <<>>

DictKeys(d) == {d[i].k : i \in 1..Len(d)}

DictHas(d, key) == \E i \in 1..Len(d) : d[i].k = key

DictGet(d, key) == d[CHOOSE i \in 1..Len(d) : d[i].k = key].v

DictSet(d, key, val) ==
    IF DictHas(d, key)
    THEN [i \in 1..Len(d) |-> IF d[i].k = key THEN [k |-> key, v |-> val] ELSE d[i]]
    ELSE Append(d, [k |-> key, v |-> val])

-----------------------------------------------------------------------------
(* Python str methods.                                                     *)

LowerChar(c) ==
    CASE c = "A" -> "a" [] c = "B" -> "b" [] c = "C" -> "c" [] c = "D" -> "d"
      [] c = "E" -> "e" [] c = "F" -> "f" [] c = "G" -> "g" [] c = "H" -> "h"
      [] c = "I" -> "i" [] c = "J" -> "j" [] c = "K" -> "k" [] c = "L" -> "l"
      [] c = "M" -> "m" [] c = "N" -> "n" [] c = "O" -> "o" [] c = "P" -> "p"
      [] c = "Q" -> "q" [] c = "R" -> "r" [] c = "S" -> "s" [] c = "T" -> "t"
      [] c = "U" -> "u" [] c = "V" -> "v" [] c = "W" -> "w" [] c = "X" -> "x"
      [] c = "Y" -> "y" [] c = "Z" -> "z" [] OTHER -> c

RECURSIVE Lower(_)
Lower(s) ==
    IF s = "" THEN ""
    ELSE LowerChar(SubSeq(s, 1, 1)) \o Lower(SubSeq(s, 2, Len(s)))

\* sub in s
Contains(s, sub) ==
    \E i \in 1..(Len(s) - Len(sub) + 1) : SubSeq(s, i, i + Len(sub) - 1) = sub

\* s.split('.')[0]
RECURSIVE SplitDotFirst(_)
SplitDotFirst(s) ==
    IF s = "" \/ SubSeq(s, 1, 1) = "." THEN ""
    ELSE SubSeq(s, 1, 1) \o SplitDotFirst(SubSeq(s, 2, Len(s)))

\* s.strip() is non-empty
IsSpace(c) == c \in {" ", "\t", "\n", "\r"}

StripNonEmpty(s) == \E i \in 1..Len(s) : ~IsSpace(SubSeq(s, i, i))

-----------------------------------------------------------------------------
(* The fixed vocabulary: the keys of self.html_vocabulary, in order.       *)

html_vocabulary ==
    <<"h1", "h2", "h3", "p", "p.BodyText", "ul.Bulleted", "ol.Numbered",
      "table.StdTable", "blockquote">>

-----------------------------------------------------------------------------
(* The package.  A style element carries its w:styleId and w:type          *)
(* attributes (None when the attribute is absent) and its w:name and       *)
(* w:basedOn children as XPath results: <<>> when the child is absent,     *)
(* <<val>> when present (val is None when the child has no w:val).         *)

StyleElem(id, name, type, basedOn) ==
    [styleId |-> id, name |-> name, type |-> type, basedOn |-> basedOn]

NumElem(id, abstractNumId) == [numId |-> id, abstractNumId |-> abstractNumId]

\* elem.get(attr) of the first XPath hit, else the default
FirstVal(hits, default) == IF hits # <<>> THEN hits[1] ELSE default

\* the body of the for loop of extract_styles_xml
RECURSIVE ParseStyles(_)
ParseStyles(elems) ==
    IF elems = <<>> THEN EmptyDict
    ELSE LET style_elem == elems[Len(elems)]
             style_id   == style_elem.styleId
             style_type == style_elem.type
             style_name == FirstVal(style_elem.name, style_id)
             based_on   == FirstVal(style_elem.basedOn, None)
         IN  DictSet(ParseStyles(SubSeq(elems, 1, Len(elems) - 1)), style_id,
                     [name |-> style_name, type |-> style_type, basedOn |-> based_on])

\* the body of the for loop of extract_numbering_xml
RECURSIVE ParseNumbering(_)
ParseNumbering(elems) ==
    IF elems = <<>> THEN EmptyDict
    ELSE LET num_elem        == elems[Len(elems)]
             num_id          == num_elem.numId
             abstract_num_id == FirstVal(num_elem.abstractNumId, None)
         IN  DictSet(ParseNumbering(SubSeq(elems, 1, Len(elems) - 1)), num_id,
                     [abstractNumId |-> abstract_num_id])

-----------------------------------------------------------------------------
(* The semantic mapping engine.                                            *)

\* mutant: the "body text" rule is tried before the "body"/"normal" rule
MapStyleBodyTextFirst(style_name, style_type) ==
    LET style_lower == Lower(style_name)
    IN  IF Contains(style_lower, "heading 1") \/ style_lower = "title" THEN "h1"
        ELSE IF Contains(style_lower, "heading 2") \/ Contains(style_lower, "subtitle") THEN "h2"
        ELSE IF Contains(style_lower, "heading 3") THEN "h3"
        ELSE IF Contains(style_lower, "body text") THEN "p.BodyText"
        ELSE IF Contains(style_lower, "body") \/ Contains(style_lower, "normal") THEN "p"
        ELSE IF Contains(style_lower, "list bullet") \/ Contains(style_lower, "bullet") THEN "ul.Bulleted"
        ELSE IF Contains(style_lower, "list number") \/ Contains(style_lower, "numbered") THEN "ol.Numbered"
        ELSE IF style_type = "table" \/ Contains(style_lower, "table") THEN "table.StdTable"
        ELSE IF Contains(style_lower, "quote") \/ Contains(style_lower, "block") THEN "blockquote"
        ELSE None

\* mutant: rule 8 tests the name only, not the kind
MapStyleByNameOnly(style_name, style_type) ==
    LET style_lower == Lower(style_name)
    IN  IF Contains(style_lower, "heading 1") \/ style_lower = "title" THEN "h1"
        ELSE IF Contains(style_lower, "heading 2") \/ Contains(style_lower, "subtitle") THEN "h2"
        ELSE IF Contains(style_lower, "heading 3") THEN "h3"
        ELSE IF Contains(style_lower, "body") \/ Contains(style_lower, "normal") THEN "p"
        ELSE IF Contains(style_lower, "body text") THEN "p.BodyText"
        ELSE IF Contains(style_lower, "list bullet") \/ Contains(style_lower, "bullet") THEN "ul.Bulleted"
        ELSE IF Contains(style_lower, "list number") \/ Contains(style_lower, "numbered") THEN "ol.Numbered"
        ELSE IF Contains(style_lower, "table") THEN "table.StdTable"
        ELSE IF Contains(style_lower, "quote") \/ Contains(style_lower, "block") THEN "blockquote"
        ELSE None

\* _map_style_to_html; None when no rule matches.  style_name is a str
\* (the caller raises AttributeError on None before any rule is tried).
_map_style_to_html(style_name, style_type) ==
    LET style_lower == Lower(style_name)
    IN  IF Contains(style_lower, "heading 1") \/ style_lower = "title" THEN "h1"
        ELSE IF Contains(style_lower, "heading 2") \/ Contains(style_lower, "subtitle") THEN "h2"
        ELSE IF Contains(style_lower, "heading 3") THEN "h3"
        ELSE IF Contains(style_lower, "body") \/ Contains(style_lower, "normal") THEN "p"
        ELSE IF Contains(style_lower, "body text") THEN "p.BodyText"
        ELSE IF Contains(style_lower, "list bullet") \/ Contains(style_lower, "bullet") THEN "ul.Bulleted"
        ELSE IF Contains(style_lower, "list number") \/ Contains(style_lower, "numbered") THEN "ol.Numbered"
        ELSE IF style_type = "table" \/ Contains(style_lower, "table") THEN "table.StdTable"
        ELSE IF Contains(style_lower, "quote") \/ Contains(style_lower, "block") THEN "blockquote"
        ELSE None

\* mutant: the default fallback is a tag outside the vocabulary
FallbackOutsideVocabulary(style_name, style_type) ==
    IF style_type = "table" THEN "table.StdTable" ELSE "div"

_generate_fallback_mapping(style_name, style_type) ==
    IF style_type = "table" THEN "table.StdTable" ELSE "p"

\* the f-string appended to warnings
WarningText(style_name, fallback_element) ==
    "Unknown style '" \o style_name \o "' mapped to '" \o fallback_element \o "'"

\* the styles the loop does not skip
Considered(style_type) == style_type \in {"paragraph", "table"}

\* mutant: styles of every kind are classified (no skip)
ClassifyStyleNoSkip(acc, style_data) ==
    LET style_name == style_data.name
        style_type == style_data.type
        html_element == _map_style_to_html(style_name, style_type)
    IN  IF html_element # None
        THEN [acc EXCEPT !.mappings = DictSet(@, html_element, style_name)]
        ELSE LET fallback_element == _generate_fallback_mapping(style_name, style_type)
             IN  [acc EXCEPT
                    !.fallbacks = DictSet(@, style_name, fallback_element),
                    !.warnings  = Append(@, WarningText(style_name, fallback_element))]

\* mutant: a warning is appended only for a name not yet in fallbacks
ClassifyStyleWarnOnce(acc, style_data) ==
    LET style_name == style_data.name
        style_type == style_data.type
    IN  IF ~Considered(style_type) THEN acc
        ELSE LET html_element == _map_style_to_html(style_name, style_type)
             IN  IF html_element # None
                 THEN [acc EXCEPT !.mappings = DictSet(@, html_element, style_name)]
                 ELSE LET fallback_element == _generate_fallback_mapping(style_name, style_type)
                      IN  [acc EXCEPT
                             !.fallbacks = DictSet(@, style_name, fallback_element),
                             !.warnings  = IF DictHas(acc.fallbacks, style_name) THEN @
                                           ELSE Append(@, WarningText(style_name, fallback_element))]

\* mutant: the first style matched for a tag is kept (first write wins)
ClassifyStyleFirstWins(acc, style_data) ==
    LET style_name == style_data.name
        style_type == style_data.type
    IN  IF ~Considered(style_type) THEN acc
        ELSE LET html_element == _map_style_to_html(style_name, style_type)
             IN  IF html_element # None
                 THEN IF DictHas(acc.mappings, html_element) THEN acc
                      ELSE [acc EXCEPT !.mappings = DictSet(@, html_element, style_name)]
                 ELSE LET fallback_element == _generate_fallback_mapping(style_name, style_type)
                      IN  [acc EXCEPT
                             !.fallbacks = DictSet(@, style_name, fallback_element),
                             !.warnings  = Append(@, WarningText(style_name, fallback_element))]

\* one iteration of the for loop of generate_html_semantic_mappings on the
\* locals acc = [mappings, fallbacks, warnings]
ClassifyStyle(acc, style_data) ==
    LET style_name == style_data.name
        style_type == style_data.type
    IN  IF ~Considered(style_type) THEN acc
        ELSE LET html_element == _map_style_to_html(style_name, style_type)
             IN  IF html_element # None
                 THEN [acc EXCEPT !.mappings = DictSet(@, html_element, style_name)]
                 ELSE LET fallback_element == _generate_fallback_mapping(style_name, style_type)
                      IN  [acc EXCEPT
                             !.fallbacks = DictSet(@, style_name, fallback_element),
                             !.warnings  = Append(@, WarningText(style_name, fallback_element))]

\* the for loop over self.styles_data.items()
RECURSIVE ClassifyLoop(_)
ClassifyLoop(sd) ==
    IF sd = <<>>
    THEN [mappings |-> EmptyDict, fallbacks |-> EmptyDict, warnings |-> <<>>]
    ELSE ClassifyStyle(ClassifyLoop(SubSeq(sd, 1, Len(sd) - 1)), sd[Len(sd)].v)

\* style_name.lower() on a None name raises AttributeError
ClassifyRaises(sd) ==
    \E i \in 1..Len(sd) : Considered(sd[i].v.type) /\ sd[i].v.name = None

essentials ==
    <<[k |-> "h1", v |-> "Heading 1"], [k |-> "h2", v |-> "Heading 2"],
      [k |-> "p", v |-> "Normal"], [k |-> "table.StdTable", v |-> "Table Grid"]>>

RECURSIVE EnsureFrom(_, _)
EnsureFrom(mappings, n) ==
    IF n = 0 THEN mappings
    ELSE LET m == EnsureFrom(mappings, n - 1)
         IN  IF ~DictHas(m, essentials[n].k)
             THEN DictSet(m, essentials[n].k, essentials[n].v)
             ELSE m

\* mutant: the placeholders are written without the "not in mappings" test
EnsureOverwrites(mappings) ==
    LET RECURSIVE Put(_, _)
        Put(m, n) ==
            IF n = 0 THEN m
            ELSE DictSet(Put(m, n - 1), essentials[n].k, essentials[n].v)
    IN  Put(mappings, Len(essentials))

\* mutant: every tag of the vocabulary without an entry gets a placeholder
EnsureWholeVocabulary(mappings) ==
    LET RECURSIVE Fill(_, _)
        Fill(m, n) ==
            IF n = 0 THEN m
            ELSE LET before == Fill(m, n - 1)
                 IN  IF DictHas(before, html_vocabulary[n]) THEN before
                     ELSE DictSet(before, html_vocabulary[n], html_vocabulary[n])
    IN  Fill(EnsureFrom(mappings, Len(essentials)), Len(html_vocabulary))

\* mutant: the loop over the essentials stops one entry early
EnsureAllButLast(mappings) == EnsureFrom(mappings, Len(essentials) - 1)

_ensure_basic_mappings(mappings) == EnsureFrom(mappings, Len(essentials))

\* mutant: only the considered styles are counted
StatisticsConsideredOnly(sd, mappings, fallbacks) ==
    [total_styles_found |-> Len(SelectSeq(sd, LAMBDA e : Considered(e.v.type))),
     mapped_styles      |-> Len(mappings),
     fallback_styles    |-> Len(fallbacks)]

\* the statistics entry of the manifest
Statistics(sd, mappings, fallbacks) ==
    [total_styles_found |-> Len(sd),
     mapped_styles      |-> Len(mappings),
     fallback_styles    |-> Len(fallbacks)]

\* mutant: the statistics are taken before the essentials are ensured
ManifestCountedBeforeEnsure(sd) ==
    LET acc      == ClassifyLoop(sd)
        mappings == _ensure_basic_mappings(acc.mappings)
    IN  [version    |-> "1.0",
         styles     |-> mappings,
         fallbacks  |-> acc.fallbacks,
         warnings   |-> acc.warnings,
         vocabulary |-> html_vocabulary,
         statistics |-> Statistics(sd, acc.mappings, acc.fallbacks)]

\* the manifest generate_html_semantic_mappings builds (generatedAt and
\* docx_path, a timestamp and a file name, are left out)
Manifest(sd) ==
    LET acc      == ClassifyLoop(sd)
        mappings == _ensure_basic_mappings(acc.mappings)
    IN  [version    |-> "1.0",
         styles     |-> mappings,
         fallbacks  |-> acc.fallbacks,
         warnings   |-> acc.warnings,
         vocabulary |-> html_vocabulary,
         statistics |-> Statistics(sd, mappings, acc.fallbacks)]

\* self.style_manifest = {} until a manifest is generated
NoManifest == [version |-> None]

HasManifest == style_manifest.version # None

\* generate_html_semantic_mappings has just returned its manifest (the
\* manifest and the catalog are not written again afterwards)
Classified == pc = "save"

-----------------------------------------------------------------------------
(* The HTML preview.                                                       *)

\* mutant: the whole mappings key is returned, without split('.')[0]
StyleToHtmlWholeKey(manifest, style_name) ==
    IF manifest.version # None
       /\ \E i \in 1..Len(manifest.styles) : manifest.styles[i].v = style_name
    THEN LET i == CHOOSE j \in 1..Len(manifest.styles) :
                     /\ manifest.styles[j].v = style_name
                     /\ \A h \in 1..(j - 1) : manifest.styles[h].v # style_name
         IN  manifest.styles[i].k
    ELSE "p"

\* _style_to_html_element: the first mappings entry recording style_name
_style_to_html_element(manifest, style_name) ==
    IF manifest.version # None
       /\ \E i \in 1..Len(manifest.styles) : manifest.styles[i].v = style_name
    THEN LET i == CHOOSE j \in 1..Len(manifest.styles) :
                     /\ manifest.styles[j].v = style_name
                     /\ \A h \in 1..(j - 1) : manifest.styles[h].v # style_name
         IN  SplitDotFirst(manifest.styles[i].k)
    ELSE "p"

\* the tags generate_html_preview emits, one per rendered element
RECURSIVE PreviewElements(_, _)
PreviewElements(manifest, structure) ==
    IF structure = <<>> THEN <<>>
    ELSE LET element == structure[Len(structure)]
             before  == PreviewElements(manifest, SubSeq(structure, 1, Len(structure) - 1))
         IN  IF element.type = "paragraph" /\ StripNonEmpty(element.text)
             THEN Append(before, _style_to_html_element(manifest, element.style))
             ELSE IF element.type = "table"
             THEN Append(before, "table")
             ELSE before

-----------------------------------------------------------------------------
(* The inputs: the packages the model is run on.                           *)

Ids == {"S1", "S2"}

TypePool == {"paragraph", "table", "character"}

NamePool == {"Heading 1", "Title", "Body Text", "Custom Grid 7"}

\* a style element with or without a w:name child
StyleElems ==
    {StyleElem(id, name, type, <<>>) :
        id \in Ids, name \in {<<>>} \cup {<<n>> : n \in NamePool}, type \in TypePool}

\* the five styles of the end-to-end scenario
EndToEndCatalog ==
    <<StyleElem("S1", <<"Heading 1">>, "paragraph", <<>>),
      StyleElem("S2", <<"Normal">>, "paragraph", <<>>),
      StyleElem("S3", <<"List Bullet">>, "paragraph", <<>>),
      StyleElem("S4", <<"Table Grid">>, "table", <<>>),
      StyleElem("S5", <<"Fancy Box">>, "paragraph", <<>>)>>

\* styles.xml payloads beyond the exhaustive ones: elements without
\* w:styleId or w:type, a w:basedOn reference, one style per heuristic
\* rule, the end-to-end scenario
ScenarioCatalogs ==
    { EndToEndCatalog,
      <<StyleElem(None, <<"Heading 1">>, "paragraph", <<>>),
        StyleElem(None, <<"Fancy Box">>, "paragraph", <<"Normal">>)>>,
      <<StyleElem("S1", <<"Normal">>, "paragraph", <<>>),
        StyleElem(None, <<>>, "paragraph", <<>>)>>,
      <<StyleElem(None, <<>>, "character", <<>>),
        StyleElem("S1", <<"Quote">>, None, <<>>)>>,
      <<StyleElem("S1", <<"Heading 2">>, "paragraph", <<>>),
        StyleElem("S2", <<"Subtitle">>, "paragraph", <<"S1">>),
        StyleElem("S3", <<"heading 3">>, "paragraph", <<>>),
        StyleElem("S4", <<"Normal">>, "paragraph", <<>>),
        StyleElem("S5", <<"List Bullet">>, "paragraph", <<>>),
        StyleElem("S6", <<"List Number">>, "paragraph", <<>>),
        StyleElem("S7", <<"TableGrid">>, "paragraph", <<>>),
        StyleElem("S8", <<"Intense Quote">>, "paragraph", <<>>),
        StyleElem("S9", <<"Block Text">>, "paragraph", <<>>)>> }

Catalogs ==
    UNION {[1..n -> StyleElems] : n \in 0..MaxStyles} \cup ScenarioCatalogs

StylesParts ==
    {[status |-> "ok", elems |-> c] : c \in Catalogs}
    \cup {[status |-> "missing", elems |-> <<>>],
          [status |-> "malformed", elems |-> <<>>]}

NumberingParts ==
    {[status |-> "absent", elems |-> <<>>],
     [status |-> "malformed", elems |-> <<>>],
     [status |-> "ok", elems |-> <<NumElem("1", <<"0">>)>>],
     [status |-> "ok", elems |-> <<NumElem(None, <<>>), NumElem("2", <<"0">>),
                                    NumElem(None, <<"1">>)>>]}

\* paragraph.text cut to 100 characters
TextLimit == 100

ElementText(text) ==
    IF Len(text) > TextLimit THEN SubSeq(text, 1, TextLimit) \o "..." ELSE text

\* The content the document walk reads: one paragraph per paragraph style
\* of the catalog, a blank paragraph without a style, and one table.
RECURSIVE ParagraphsOf(_)
ParagraphsOf(elems) ==
    IF elems = <<>> THEN <<>>
    ELSE LET e    == elems[Len(elems)]
             name == FirstVal(e.name, e.styleId)
             rest == ParagraphsOf(SubSeq(elems, 1, Len(elems) - 1))
         IN  IF e.type = "paragraph" /\ name # None
             THEN Append(rest, [style |-> name, text |-> "Lorem ipsum"])
             ELSE rest

DocumentPart(elems) ==
    [paragraphs |-> ParagraphsOf(elems) \o <<[style |-> None, text |-> "  "]>>,
     tables     |-> <<[rows |-> 2, cols |-> 3]>>]

Package(kind, styles, numbering) ==
    [kind |-> kind, styles |-> styles, numbering |-> numbering,
     document |-> DocumentPart(styles.elems)]

\* Every styles part in a package without numbering.xml, every numbering
\* part beside the scenario catalogs and the unreadable styles parts, and
\* the files that are no package at all.
Packages ==
    {Package("zip", s, [status |-> "absent", elems |-> <<>>]) : s \in StylesParts}
    \cup {Package("zip", s, n) :
            s \in {p \in StylesParts : p.status # "ok" \/ p.elems \in ScenarioCatalogs \cup {<<>>}},
            n \in NumberingParts}
    \cup {Package(k, [status |-> "missing", elems |-> <<>>],
                     [status |-> "absent", elems |-> <<>>]) : k \in {"absent", "notzip"}}

-----------------------------------------------------------------------------
(* The pipeline.                                                           *)

NoResult ==
    [returned |-> FALSE, success |-> FALSE, error |-> None,
     style_manifest |-> NoManifest, outputs |-> {}]

Init ==
    /\ docx \in Packages
    /\ pc = "main"
    /\ styles_data = EmptyDict
    /\ numbering_data = EmptyDict
    /\ document_structure = <<>>
    /\ style_manifest = NoManifest
    /\ output_dir = None
    /\ outputs = <<>>
    /\ result = NoResult
    /\ exit_code = None

\* main up to the call of process_full_pipeline
Main ==
    /\ pc = "main"
    /\ IF docx.kind = "absent"
       THEN /\ exit_code' = 1
            /\ pc' = "exit"
       ELSE /\ exit_code' = exit_code
            /\ pc' = "extract_styles"
    /\ UNCHANGED <<docx, styles_data, numbering_data, document_structure,
                   style_manifest, output_dir, outputs, result>>

\* whether extract_styles_xml reaches its return inside the try block
StylesReadable == docx.kind = "zip" /\ docx.styles.status = "ok"

extract_styles_xml ==
    /\ pc = "extract_styles"
    /\ styles_data' = IF StylesReadable THEN ParseStyles(docx.styles.elems)
                      ELSE styles_data
    /\ pc' = "extract_numbering"
    /\ UNCHANGED <<docx, numbering_data, document_structure, style_manifest,
                   output_dir, outputs, result, exit_code>>

\* mutant: a package without numbering.xml is an error that ends the run
ExtractNumberingAbsentFails ==
    /\ pc = "extract_numbering"
    /\ IF docx.kind = "zip" /\ docx.numbering.status = "absent"
       THEN /\ result' = [returned |-> TRUE, success |-> FALSE,
                          error |-> "word/numbering.xml not found",
                          style_manifest |-> style_manifest, outputs |-> {}]
            /\ pc' = "return"
            /\ UNCHANGED numbering_data
       ELSE /\ numbering_data' = IF docx.kind = "zip" /\ docx.numbering.status = "ok"
                                 THEN ParseNumbering(docx.numbering.elems)
                                 ELSE numbering_data
            /\ pc' = "analyze"
            /\ UNCHANGED result
    /\ UNCHANGED <<docx, styles_data, document_structure, style_manifest,
                   output_dir, outputs, exit_code>>

extract_numbering_xml ==
    /\ pc = "extract_numbering"
    /\ numbering_data' = IF docx.kind = "zip" /\ docx.numbering.status = "ok"
                         THEN ParseNumbering(docx.numbering.elems)
                         ELSE numbering_data
    /\ pc' = "analyze"
    /\ UNCHANGED <<docx, styles_data, document_structure, style_manifest,
                   output_dir, outputs, result, exit_code>>

\* the structure analyze_document_structure builds from the document part
RECURSIVE ParagraphElements(_)
ParagraphElements(paragraphs) ==
    IF paragraphs = <<>> THEN <<>>
    ELSE LET paragraph == paragraphs[Len(paragraphs)]
         IN  Append(ParagraphElements(SubSeq(paragraphs, 1, Len(paragraphs) - 1)),
                    [type  |-> "paragraph",
                     text  |-> ElementText(paragraph.text),
                     style |-> IF paragraph.style # None THEN paragraph.style
                               ELSE "Normal",
                     rows  |-> 0, cols |-> 0])

RECURSIVE TableElements(_)
TableElements(tables) ==
    IF tables = <<>> THEN <<>>
    ELSE LET table == tables[Len(tables)]
         IN  Append(TableElements(SubSeq(tables, 1, Len(tables) - 1)),
                    [type |-> "table", text |-> "", style |-> "TableGrid",
                     rows |-> table.rows,
                     cols |-> IF table.rows > 0 THEN table.cols ELSE 0])

analyze_document_structure ==
    /\ pc = "analyze"
    /\ document_structure' =
          IF docx.kind = "zip"
          THEN ParagraphElements(docx.document.paragraphs)
               \o TableElements(docx.document.tables)
          ELSE document_structure
    /\ pc' = "generate"
    /\ UNCHANGED <<docx, styles_data, numbering_data, style_manifest,
                   output_dir, outputs, result, exit_code>>

\* the result the except branch of process_full_pipeline returns
Failure(message) ==
    [returned |-> TRUE, success |-> FALSE, error |-> message,
     style_manifest |-> NoManifest, outputs |-> {}]

Success(files) ==
    [returned |-> TRUE, success |-> TRUE, error |-> None,
     style_manifest |-> style_manifest, outputs |-> files]

generate_html_semantic_mappings ==
    /\ pc = "generate"
    /\ IF ClassifyRaises(styles_data)
       THEN /\ result' = Failure("'NoneType' object has no attribute 'lower'")
            /\ pc' = "return"
            /\ UNCHANGED style_manifest
       ELSE /\ style_manifest' = Manifest(styles_data)
            /\ pc' = "save"
            /\ UNCHANGED result
    /\ UNCHANGED <<docx, styles_data, numbering_data, document_structure,
                   output_dir, outputs, exit_code>>

\* the processing report save_outputs writes
Report ==
    [styles_found      |-> Len(styles_data),
     numbering_found   |-> Len(numbering_data),
     document_elements |-> Len(document_structure),
     html_mappings     |-> Len(style_manifest.styles),
     warnings          |-> style_manifest.warnings,
     success           |-> TRUE]

\* step 5 of process_full_pipeline and its return; writing the files may
\* raise (an unwritable directory), which the except branch turns into a
\* failure result
save_outputs ==
    /\ pc = "save"
    /\ \E dir \in {None, "out"} :
          /\ output_dir' = dir
          /\ \/ /\ dir = None
                /\ outputs' = outputs
                /\ result' = Success({})
             \/ /\ dir # None
                /\ outputs' = <<[file |-> "manifest", content |-> style_manifest],
                                [file |-> "html_preview",
                                 content |-> PreviewElements(style_manifest, document_structure)],
                                [file |-> "report", content |-> Report]>>
                /\ result' = Success({"manifest", "html_preview", "report"})
             \/ /\ dir # None
                /\ outputs' = outputs
                /\ result' = Failure("[Errno 13] Permission denied")
    /\ pc' = "return"
    /\ UNCHANGED <<docx, styles_data, numbering_data, document_structure,
                   style_manifest, exit_code>>

\* main after process_full_pipeline has returned
MainExit ==
    /\ pc = "return"
    /\ exit_code' = IF result.success THEN 0 ELSE 1
    /\ pc' = "exit"
    /\ UNCHANGED <<docx, styles_data, numbering_data, document_structure,
                   style_manifest, output_dir, outputs, result>>

Next ==
    \/ Main
    \/ extract_styles_xml
    \/ extract_numbering_xml
    \/ analyze_document_structure
    \/ generate_html_semantic_mappings
    \/ save_outputs
    \/ MainExit

Spec == Init /\ [][Next]_vars

-----------------------------------------------------------------------------
(* Vocabulary of the properties.                                           *)

EssentialTags == {"h1", "h2", "p", "table.StdTable"}

NineTags ==
    {"h1", "h2", "h3", "p", "p.BodyText", "ul.Bulleted", "ol.Numbered",
     "table.StdTable", "blockquote"}

Catalog == 1..Len(styles_data)

ConsideredAt(i) == Considered(styles_data[i].v.type)

\* the tag the heuristic gives catalog entry i (None: no rule matches)
TagOf(i) == _map_style_to_html(styles_data[i].v.name, styles_data[i].v.type)

\* the tag of every considered entry of the catalog; "skipped" for the rest
Tags == [i \in Catalog |-> IF ConsideredAt(i) THEN TagOf(i) ELSE "skipped"]

\* catalog entry i is considered and matches a rule
MatchedAt(i) == ConsideredAt(i) /\ TagOf(i) # None

\* the name of catalog entry i matches none of the rules that test the name
NameMatchesNoRule(i) == _map_style_to_html(styles_data[i].v.name, "paragraph") = None

-----------------------------------------------------------------------------
(* C1: for every style catalog, the empty one included, the mappings of    *)
(* the manifest that generate_html_semantic_mappings produces hold all     *)
(* four essential tags h1, h2, p and table.StdTable.                       *)
C1_Completeness ==
    HasManifest => \A t \in EssentialTags : DictHas(style_manifest.styles, t)

\* the empty catalog of a readable package has been classified
C1_Witness ==
    /\ HasManifest
    /\ StylesReadable
    /\ docx.styles.elems = <<>>
    /\ styles_data = EmptyDict
    /\ Len(style_manifest.styles) = 4

(* C2: every key of mappings and every value of fallbacks is one of the    *)
(* nine tags of the fixed vocabulary, and the manifest's vocabulary field  *)
(* lists exactly those nine tags.                                          *)
C2_ClosedVocabulary ==
    HasManifest =>
        /\ DictKeys(style_manifest.styles) \subseteq NineTags
        /\ \A i \in 1..Len(style_manifest.fallbacks) :
              style_manifest.fallbacks[i].v \in NineTags
        /\ Len(style_manifest.vocabulary) = 9
        /\ {style_manifest.vocabulary[i] : i \in 1..9} = NineTags

\* a manifest with a style matched to a qualified tag and a fallback
C2_Witness ==
    /\ HasManifest
    /\ Len(style_manifest.fallbacks) > 0
    /\ \E i \in Catalog : MatchedAt(i) /\ TagOf(i) = "table.StdTable"

(* C3: when several considered styles match the same tag, mappings[tag]    *)
(* holds the name of the last of them in the catalog's processing order;   *)
(* the earlier matches are superseded and leave no warning (warnings come  *)
(* only from styles that match no rule).                                   *)
C3_LastWriteWins ==
    Classified =>
        LET tag == Tags
        IN  /\ \A i \in Catalog :
                  (tag[i] \in NineTags /\ \A j \in Catalog : j > i => tag[j] # tag[i])
                  => DictGet(style_manifest.styles, tag[i]) = styles_data[i].v.name
            /\ Len(style_manifest.warnings) = Cardinality({i \in Catalog : tag[i] = None})

\* paragraph styles 'Heading 1' then 'Title': h1 records 'Title', no warning
C3_Witness ==
    /\ HasManifest
    /\ Len(styles_data) = 2
    /\ styles_data[1].v = [name |-> "Heading 1", type |-> "paragraph", basedOn |-> None]
    /\ styles_data[2].v = [name |-> "Title", type |-> "paragraph", basedOn |-> None]
    /\ DictGet(style_manifest.styles, "h1") = "Title"
    /\ style_manifest.warnings = <<>>

(* C4: a style of kind table whose name matches none of the name-based     *)
(* rules is matched by rule 8 on its kind: it is recorded in mappings      *)
(* under table.StdTable (the last such style wins), it adds no entry to    *)
(* fallbacks and no warning; no entry of fallbacks and no warning ever     *)
(* carries table.StdTable.                                                 *)
C4_TableKindIsMapped ==
    Classified =>
        /\ LET tag == Tags
           IN  \A i \in Catalog :
                 (styles_data[i].v.type = "table" /\ NameMatchesNoRule(i)) =>
                    /\ tag[i] = "table.StdTable"
                    /\ (\A j \in Catalog : j > i => tag[j] # "table.StdTable")
                          => DictGet(style_manifest.styles, "table.StdTable") = styles_data[i].v.name
                    /\ DictHas(style_manifest.fallbacks, styles_data[i].v.name)
                          => \E j \in Catalog : /\ tag[j] = None
                                                /\ styles_data[j].v.type = "paragraph"
                                                /\ styles_data[j].v.name = styles_data[i].v.name
        /\ \A i \in 1..Len(style_manifest.fallbacks) :
              style_manifest.fallbacks[i].v = "p"
        /\ \A i \in 1..Len(style_manifest.warnings) :
              ~Contains(style_manifest.warnings[i], "table.StdTable")

\* the table style 'Custom Grid 7' alone: mapped, no fallback, no warning
C4_Witness ==
    /\ HasManifest
    /\ Len(styles_data) = 1
    /\ styles_data[1].v.name = "Custom Grid 7"
    /\ styles_data[1].v.type = "table"
    /\ DictGet(style_manifest.styles, "table.StdTable") = "Custom Grid 7"
    /\ style_manifest.fallbacks = EmptyDict
    /\ style_manifest.warnings = <<>>

\* C4 as claimed: such a style is routed to table.StdTable in fallbacks and
\* produces exactly one warning
C4_AsClaimed ==
    HasManifest =>
        \A i \in Catalog :
           (styles_data[i].v.type = "table" /\ NameMatchesNoRule(i)) =>
              /\ DictHas(style_manifest.fallbacks, styles_data[i].v.name)
              /\ DictGet(style_manifest.fallbacks, styles_data[i].v.name) = "table.StdTable"
              /\ Cardinality({w \in 1..Len(style_manifest.warnings) :
                    style_manifest.warnings[w]
                       = WarningText(styles_data[i].v.name, "table.StdTable")}) = 1

(* C5 as claimed: when an extraction step fails (the package is no         *)
(* readable archive, or its style definitions are missing or unparseable)  *)
(* the pipeline returns {success: false, error: message}, the CLI exits    *)
(* with status 1, and no manifest is built from the failed extraction.     *)
C5_ExtractionFailureAborts ==
    (result.returned /\ ~StylesReadable) =>
        /\ ~result.success
        /\ result.error # None
        /\ ~HasManifest
        /\ pc = "exit" => exit_code = 1

(* C6 as claimed: a style element without w:styleId, or a numbering        *)
(* element without w:numId, makes extraction fail; the element is neither  *)
(* skipped nor recorded under a defaulted or empty key.                    *)
C6_MissingIdFails ==
    /\ ~DictHas(styles_data, None)
    /\ ~DictHas(numbering_data, None)
    /\ (result.returned /\ docx.kind = "zip"
        /\ \/ \E i \in 1..Len(docx.styles.elems) : docx.styles.elems[i].styleId = None
           \/ \E i \in 1..Len(docx.numbering.elems) : docx.numbering.elems[i].numId = None)
       => ~result.success

(* C7: the manifest's statistics count the whole style catalog, the        *)
(* mappings and the fallbacks: total_styles_found is the number of entries *)
(* of the style catalog, of every kind (skipped character styles           *)
(* included), mapped_styles the number of entries of mappings and          *)
(* fallback_styles the number of entries of fallbacks.                     *)
C7_Statistics ==
    HasManifest =>
        /\ style_manifest.statistics.total_styles_found = Cardinality(DictKeys(styles_data))
        /\ style_manifest.statistics.mapped_styles
              = Cardinality(DictKeys(style_manifest.styles))
        /\ style_manifest.statistics.fallback_styles
              = Cardinality(DictKeys(style_manifest.fallbacks))

\* a catalog with a skipped style: more styles found than considered
C7_Witness ==
    /\ HasManifest
    /\ \E i \in Catalog : ~ConsideredAt(i)
    /\ \E i \in Catalog : ConsideredAt(i)
    /\ style_manifest.statistics.total_styles_found
          > Cardinality({i \in Catalog : ConsideredAt(i)})

\* C7 as claimed: total_styles_found is the number of considered styles
C7_AsClaimed ==
    HasManifest =>
        /\ style_manifest.statistics.total_styles_found
              = Cardinality({i \in Catalog : ConsideredAt(i)})
        /\ style_manifest.statistics.mapped_styles
              = Cardinality(DictKeys(style_manifest.styles))
        /\ style_manifest.statistics.fallback_styles
              = Cardinality(DictKeys(style_manifest.fallbacks))

(* C8: after the ensure-basics step each of the four essential tags has an *)
(* entry in mappings, the fixed placeholder when no considered style       *)
(* matched it; a tag outside the four essentials has an entry exactly when *)
(* a considered style matched it.                                          *)
C8_EssentialsEnsured ==
    Classified =>
        LET tag == Tags
        IN  /\ \A n \in 1..Len(essentials) :
                  /\ DictHas(style_manifest.styles, essentials[n].k)
                  /\ (\A i \in Catalog : tag[i] # essentials[n].k)
                        => DictGet(style_manifest.styles, essentials[n].k) = essentials[n].v
            /\ \A t \in NineTags \ EssentialTags :
                  DictHas(style_manifest.styles, t) <=> \E i \in Catalog : tag[i] = t

\* no style matched h1 or h3: h1 holds its placeholder and h3 is absent
C8_Witness ==
    /\ HasManifest
    /\ styles_data # EmptyDict
    /\ \A i \in Catalog : Tags[i] \notin {"h1", "h3"}
    /\ DictGet(style_manifest.styles, "h1") = "Heading 1"
    /\ ~DictHas(style_manifest.styles, "h3")

\* C8 as claimed: every tag of the nine-tag set has an entry in mappings
C8_AsClaimed ==
    HasManifest => \A t \in NineTags : DictHas(style_manifest.styles, t)

\* the catalog without the styles whose kind is neither paragraph nor table
ConsideredOnly(sd) == SelectSeq(sd, LAMBDA e : Considered(e.v.type))

(* C9: a style whose kind is neither paragraph nor table is skipped: the   *)
(* mappings, fallbacks, warnings and the mapped and fallback counts of the *)
(* manifest are those of the catalog without that style; only the count of *)
(* styles found differs.                                                   *)
C9_OtherKindsSkipped ==
    Classified =>
        LET without == Manifest(ConsideredOnly(styles_data))
        IN  /\ style_manifest.styles = without.styles
            /\ style_manifest.fallbacks = without.fallbacks
            /\ style_manifest.warnings = without.warnings
            /\ style_manifest.statistics.mapped_styles = without.statistics.mapped_styles
            /\ style_manifest.statistics.fallback_styles = without.statistics.fallback_styles

\* a character style beside a considered one; its name appears nowhere
C9_Witness ==
    /\ HasManifest
    /\ Len(styles_data) = 2
    /\ styles_data[1].v.type = "character"
    /\ styles_data[1].v.name = "Title"
    /\ styles_data[2].v.type = "paragraph"
    /\ styles_data[2].v.name = "Custom Grid 7"
    /\ \A i \in 1..Len(style_manifest.styles) : style_manifest.styles[i].v # "Title"
    /\ ~DictHas(style_manifest.fallbacks, "Title")
    /\ Len(style_manifest.warnings) = 1

\* the considered styles that match no rule, in processing order
UnmatchedStyles == SelectSeq(styles_data, LAMBDA e :
    Considered(e.v.type) /\ _map_style_to_html(e.v.name, e.v.type) = None)

(* C10: warnings holds exactly one string per considered style that        *)
(* matched no rule, in processing order, each naming that style and the    *)
(* tag fallbacks records for it; fallbacks holds one entry per distinct    *)
(* unmatched name, so len(warnings) >= len(fallbacks), with equality       *)
(* exactly when the unmatched styles have distinct names.                  *)
C10_WarningPerFallbackStyle ==
    Classified =>
        LET unmatched == UnmatchedStyles
            names     == {unmatched[i].v.name : i \in 1..Len(unmatched)}
        IN  /\ Len(style_manifest.warnings) = Len(unmatched)
            /\ \A i \in 1..Len(unmatched) :
                  /\ DictHas(style_manifest.fallbacks, unmatched[i].v.name)
                  /\ style_manifest.warnings[i]
                        = "Unknown style '" \o unmatched[i].v.name \o "' mapped to '"
                          \o DictGet(style_manifest.fallbacks, unmatched[i].v.name) \o "'"
            /\ DictKeys(style_manifest.fallbacks) = names
            /\ Len(style_manifest.warnings) >= Len(style_manifest.fallbacks)
            /\ Len(style_manifest.warnings) = Len(style_manifest.fallbacks)
                  <=> Cardinality(names) = Len(unmatched)

\* two unmatched styles of the same name: two warnings, one fallbacks entry
C10_Witness ==
    /\ HasManifest
    /\ Len(UnmatchedStyles) = 2
    /\ UnmatchedStyles[1].v.name = UnmatchedStyles[2].v.name
    /\ Len(style_manifest.warnings) = 2
    /\ style_manifest.warnings[1] = style_manifest.warnings[2]
    /\ Len(style_manifest.fallbacks) = 1

\* C10 as claimed: one warning per entry of fallbacks
C10_AsClaimed ==
    HasManifest =>
        /\ Len(style_manifest.warnings) = Len(style_manifest.fallbacks)
        /\ \A i \in 1..Len(style_manifest.warnings) :
              \E j \in 1..Len(style_manifest.fallbacks) :
                 style_manifest.warnings[i]
                    = "Unknown style '" \o style_manifest.fallbacks[j].k \o "' mapped to '"
                      \o style_manifest.fallbacks[j].v \o "'"

\* the package is an archive without word/numbering.xml
NumberingAbsent == docx.kind = "zip" /\ docx.numbering.status = "absent"

(* C11: when the package has no numbering part, extract_numbering_xml      *)
(* leaves an empty numbering catalog and the run goes on: it returns       *)
(* success = true with the complete manifest (main exits 0) unless         *)
(* classification raised or the outputs could not be written.              *)
C11_MissingNumberingIsNormal ==
    (result.returned /\ NumberingAbsent) =>
        /\ numbering_data = EmptyDict
        /\ \/ result.success
           \/ ClassifyRaises(styles_data)
           \/ result.error = "[Errno 13] Permission denied"
        /\ result.success =>
              /\ HasManifest
              /\ result.style_manifest = style_manifest
              /\ \A t \in EssentialTags : DictHas(result.style_manifest.styles, t)
              /\ pc = "exit" => exit_code = 0

\* a package with styles and no numbering part has run to exit status 0
C11_Witness ==
    /\ pc = "exit"
    /\ NumberingAbsent
    /\ StylesReadable
    /\ styles_data # EmptyDict
    /\ numbering_data = EmptyDict
    /\ result.success
    /\ exit_code = 0

\* the end-to-end scenario has been classified
EndToEndClassified ==
    HasManifest /\ StylesReadable /\ docx.styles.elems = EndToEndCatalog

\* a dict as the set of its (key, value) pairs
DictPairs(d) == {<<d[i].k, d[i].v>> : i \in 1..Len(d)}

\* the mappings and fallbacks the end-to-end scenario yields
EndToEndMappings ==
    /\ Len(style_manifest.styles) = 5
    /\ DictPairs(style_manifest.styles)
          = {<<"h1", "Heading 1">>, <<"p", "Normal">>, <<"ul.Bulleted", "List Bullet">>,
             <<"table.StdTable", "Table Grid">>, <<"h2", "Heading 2">>}
    /\ ~DictHas(style_manifest.styles, "h3")
    /\ Len(style_manifest.fallbacks) = 1
    /\ DictPairs(style_manifest.fallbacks) = {<<"Fancy Box", "p">>}

(* C12: for the five styles Heading 1, Normal, List Bullet (paragraph),    *)
(* Table Grid (table), Fancy Box (paragraph), classification yields        *)
(* mappings h1: 'Heading 1', p: 'Normal', ul.Bulleted: 'List Bullet',      *)
(* table.StdTable: 'Table Grid', h2: 'Heading 2' (default) and no h3,      *)
(* fallbacks 'Fancy Box': 'p', and statistics total_styles_found 5,        *)
(* mapped_styles 5 (the synthesized h2 is counted), fallback_styles 1.     *)
C12_EndToEnd ==
    EndToEndClassified =>
        /\ EndToEndMappings
        /\ style_manifest.statistics
              = [total_styles_found |-> 5, mapped_styles |-> 5, fallback_styles |-> 1]

\* the scenario has run: five mappings, one warning for 'Fancy Box'
C12_Witness ==
    /\ EndToEndClassified
    /\ Len(styles_data) = 5
    /\ style_manifest.statistics.mapped_styles = 5
    /\ style_manifest.warnings = <<"Unknown style 'Fancy Box' mapped to 'p'">>

\* C12 as claimed: mapped_styles is 4
C12_AsClaimed ==
    EndToEndClassified =>
        /\ EndToEndMappings
        /\ style_manifest.statistics
              = [total_styles_found |-> 5, mapped_styles |-> 4, fallback_styles |-> 1]

(* C13: the rules are tried top to bottom and the first match wins, so     *)
(* rule 4 ("body" or "normal" -> p) shadows rule 5 ("body text" ->         *)
(* p.BodyText): _map_style_to_html returns p.BodyText for no style of the  *)
(* catalog, a name containing "body text" gets p (or a heading tag of an   *)
(* earlier rule), and p.BodyText is never a key of mappings.               *)
C13_BodyTextShadowed ==
    Classified =>
        /\ ~DictHas(style_manifest.styles, "p.BodyText")
        /\ \A i \in Catalog :
              styles_data[i].v.name # None =>
                 LET tag == _map_style_to_html(styles_data[i].v.name, styles_data[i].v.type)
                 IN  /\ tag # "p.BodyText"
                     /\ Contains(Lower(styles_data[i].v.name), "body text")
                           => tag \in {"h1", "h2", "h3", "p"}

\* the paragraph style 'Body Text' has been classified: it is recorded as p
C13_Witness ==
    /\ Classified
    /\ \E i \in Catalog : /\ styles_data[i].v.name = "Body Text"
                          /\ styles_data[i].v.type = "paragraph"
    /\ DictGet(style_manifest.styles, "p") = "Body Text"
    /\ ~DictHas(style_manifest.styles, "p.BodyText")

(* C14: the ensure-basics step only adds entries.  The mappings the loop   *)
(* built are kept, in place and unchanged; every entry added behind them   *)
(* is the placeholder of an essential tag the loop left absent, and each   *)
(* absent essential tag gets its placeholder ('Heading 1', 'Heading 2',    *)
(* 'Normal', 'Table Grid'); fallbacks and warnings are those of the loop.  *)
C14_EnsureOnlyAdds ==
    Classified =>
        LET loop   == ClassifyLoop(styles_data)
            before == loop.mappings
            after  == style_manifest.styles
        IN  /\ Len(after) >= Len(before)
            /\ SubSeq(after, 1, Len(before)) = before
            /\ \A i \in (Len(before) + 1)..Len(after) :
                  /\ ~DictHas(before, after[i].k)
                  /\ <<after[i].k, after[i].v>> \in
                        {<<"h1", "Heading 1">>, <<"h2", "Heading 2">>,
                         <<"p", "Normal">>, <<"table.StdTable", "Table Grid">>}
            /\ \A t \in EssentialTags : DictHas(after, t)
            /\ style_manifest.fallbacks = loop.fallbacks
            /\ style_manifest.warnings = loop.warnings

\* h1 was matched from 'Title' and kept, h2 was absent and synthesized,
\* with a fallback recorded by the loop
C14_Witness ==
    /\ Classified
    /\ \E i \in Catalog : styles_data[i].v.name = "Title" /\ styles_data[i].v.type = "paragraph"
    /\ DictGet(style_manifest.styles, "h1") = "Title"
    /\ DictGet(style_manifest.styles, "h2") = "Heading 2"
    /\ Len(style_manifest.fallbacks) = 1

\* save_outputs has just written the preview; the catalog, the structure
\* and the manifest are the ones it was built from
PreviewWritten == pc = "return" /\ outputs # <<>>

\* the elements generate_html_preview emits a line for, in document order
Rendered == SelectSeq(document_structure, LAMBDA e :
    (e.type = "paragraph" /\ StripNonEmpty(e.text)) \/ e.type = "table")

\* catalog entry i matched no rule, given the tags of the catalog
FellBack(tag, i) == tag[i] = None

\* catalog entry i matched a tag that a later entry matched again
Superseded(tag, i) ==
    /\ tag[i] \notin {None, "skipped"}
    /\ \E j \in Catalog : j > i /\ tag[j] = tag[i]

\* catalog entry i is the last one matched to its tag
LastMatched(tag, i) == tag[i] \notin {None, "skipped"} /\ ~Superseded(tag, i)

\* some style called n fell back or was superseded
LostItsTag(tag, n) ==
    \E i \in Catalog : /\ styles_data[i].v.name = n
                       /\ FellBack(tag, i) \/ Superseded(tag, i)

\* some style called n is the last one matched to its tag
KeptItsTag(tag, n) ==
    \E i \in Catalog : styles_data[i].v.name = n /\ LastMatched(tag, i)

(* C15: the preview has one tag per rendered element; for a rendered       *)
(* paragraph it is the part before the dot of the key of the first         *)
(* mappings entry recording the paragraph's style name, and p when no      *)
(* entry records it.  A paragraph whose style fell back or was superseded  *)
(* is rendered as p unless a style of the same name is the last one        *)
(* matched to some tag, whose entry then decides the element.              *)
C15_PreviewThroughManifest ==
    PreviewWritten =>
        LET preview  == outputs[2].content
            rendered == Rendered
            tag      == Tags
            m        == style_manifest.styles
        IN  /\ Len(preview) = Len(rendered)
            /\ \A k \in 1..Len(rendered) :
                  rendered[k].type = "paragraph" =>
                     LET n    == rendered[k].style
                         hits == {i \in 1..Len(m) : m[i].v = n}
                     IN  /\ hits = {} => preview[k] = "p"
                         /\ \A i \in hits :
                               (\A h \in hits : i <= h)
                                  => preview[k] = SplitDotFirst(m[i].k)
                         /\ preview[k] \notin {"p.BodyText", "ul.Bulleted",
                                               "ol.Numbered", "table.StdTable"}
                         /\ (LostItsTag(tag, n) /\ ~KeptItsTag(tag, n))
                               => preview[k] = "p"

\* a paragraph styled 'Custom Grid 7', a paragraph style that fell back,
\* is rendered as table through the entry of the table style of that name
C15_Witness ==
    /\ PreviewWritten
    /\ \E i \in Catalog : /\ styles_data[i].v.name = "Custom Grid 7"
                          /\ styles_data[i].v.type = "paragraph"
    /\ DictGet(style_manifest.styles, "table.StdTable") = "Custom Grid 7"
    /\ DictHas(style_manifest.fallbacks, "Custom Grid 7")
    /\ \E k \in 1..Len(Rendered) : /\ Rendered[k].type = "paragraph"
                                   /\ Rendered[k].style = "Custom Grid 7"
                                   /\ outputs[2].content[k] = "table"

\* C15 as stated: every paragraph whose style fell back or was superseded
\* is rendered as p
C15_AsClaimed ==
    PreviewWritten =>
        LET preview  == outputs[2].content
            rendered == Rendered
            tag      == Tags
        IN  \A k \in 1..Len(rendered) :
               (rendered[k].type = "paragraph" /\ LostItsTag(tag, rendered[k].style))
                  => preview[k] = "p"

====
